---- MODULE Spec2Model ----
(***************************************************************************)
(* Model of the syzygia package manager (src/syzygia/package.py, src/web.py, *)
(* src/syzygia/cli.py, src/syzygia/mirror.py, src/syzygia/repo.py and the      *)
(* utilities of src/syzygia/utils).                                         *)
(*                                                                          *)
(* Strings.  A package name is modelled as the sequence of its hyphen-free  *)
(* segments: "foo" is <<"foo">>, "foo-ng" is <<"foo", "ng">>.  A word of a   *)
(* depends / provides / conflicts list is a record [name, con]: the name    *)
(* and the version constraint that follows it ("" when there is none), so   *)
(* "bar>=2.0" is [name |-> <<"bar">>, con |-> ">=2.0"].                     *)
(*                                                                          *)
(* Files.  <db_path>/local is a function from directory names to directory  *)
(* entries; an entry says whether the desc file exists and holds its lines  *)
(* as <<key, value>> pairs.  The cache directory is written (touch) and     *)
(* never read by the program, so only the failure of touch is modelled.     *)
(***************************************************************************)
EXTENDS Integers, Sequences, FiniteSets, TLC

VARIABLES
    installed_pkgs,   \* PackageManager.installed_pkgs: name -> Package
    available_pkgs,   \* PackageManager.available_pkgs: set to {} and never filled
    disk,             \* <db_path>/local: directory name -> directory entry
    pc,               \* position of the single caller: "idle" or "returned"
    last,             \* the call that has just returned, as its caller sees it
    ncalls,           \* number of calls (requests) started
    th,               \* the request threads of the web front end
    mirrors,          \* MirrorManager.mirrors: list of mirror URLs
    mirror_stats,     \* MirrorManager.mirror_stats: set to {} and never filled
    dest,             \* the file at the destination path of a fetch
    mlast,            \* the MirrorManager call that has just returned
    repos,            \* RepositoryManager.repos, in dict (insertion) order
    rlast,            \* the RepositoryManager call that has just returned
    vin,              \* the string handed to a validator, as its characters
    vout,             \* what the validator returned
    dlast,            \* the download_with_retry call that has just returned
    mirrorlist,       \* the mirrorlist file Config reads and writes
    cli               \* SyzygiaCLI.run: its arguments, depth and outcome

pkg_vars == <<installed_pkgs, available_pkgs, disk, pc, last, ncalls, th>>
mirror_vars == <<mirrors, mirror_stats, dest, mlast, mirrorlist>>
repo_vars == <<repos, rlast>>

util_vars == <<vin, vout, dlast>>
cli_vars == <<cli>>
vars == <<pkg_vars, mirror_vars, repo_vars, util_vars, cli_vars>>

(***************************************************************************)
(* Bounds                                                                   *)
(***************************************************************************)
MaxNames == 3
MaxCalls == 1
MaxRequests == 2
NumThreads == 2
MaxMirrors == 2
MaxStrLen == 3
MaxRetryArg == 3

(***************************************************************************)
(* Names and words                                                          *)
(***************************************************************************)
foo == <<"foo">>
bar == <<"bar">>
baz == <<"baz">>
cap == <<"cap">>
foo_ng == <<"foo", "ng">>

ReqNames == {foo, bar, baz, foo_ng}

Word(n, c) == [name |-> n, con |-> c]

\* Python string equality between a package name and a word of a list
StrEq(package_name, w) == w.con = "" /\ w.name = package_name

\* package_name in pkg.depends (list membership by string equality)
InList(package_name, ws) == \E i \in 1..Len(ws) : StrEq(package_name, ws[i])

Range(s) == {s[i] : i \in 1..Len(s)}

\* duplicate-free lists of at most n names
NameLists(n) == {s \in UNION {[1..k -> ReqNames] : k \in 0..n} :
                    \A i, j \in 1..Len(s) : i # j => s[i] # s[j]}

(***************************************************************************)
(* dict helpers                                                             *)
(***************************************************************************)
EmptyDict == [k \in {} |-> 0]
Put(d, k, v) == [x \in (DOMAIN d) \cup {k} |-> IF x = k THEN v ELSE d[x]]
Del(d, k) == [x \in (DOMAIN d) \ {k} |-> d[x]]

(***************************************************************************)
(* class Package                                                            *)
(***************************************************************************)
Package(name, version, description, depends, provides, conflicts) ==
    [name |-> name, version |-> version, description |-> description,
     depends |-> depends, provides |-> provides, conflicts |-> conflicts]

None == [none |-> TRUE]

(***************************************************************************)
(* The package database on disk                                             *)
(***************************************************************************)
NoDesc == [hasdesc |-> FALSE, desc |-> <<>>]
DescFile(lines) == [hasdesc |-> TRUE, desc |-> lines]

\* The six lines _install_package writes to <pkg_dir>/desc
DescLines(pkg_name, pkg_file) ==
    << <<"name", pkg_name>>,
       <<"version", "1.0.0">>,
       <<"description", <<"Installed from">> \o pkg_file>>,
       <<"depends", <<>> >>,
       <<"provides", <<Word(pkg_name, "")>> >>,
       <<"conflicts", <<>> >> >>

NumDescLines == 6

\* pkg_data after the parsing loop: a later line with the same key wins
HasKey(lines, key) == \E i \in 1..Len(lines) : lines[i][1] = key
GetKey(lines, key, default) ==
    IF HasKey(lines, key)
    THEN LET i == CHOOSE j \in 1..Len(lines) :
                      /\ lines[j][1] = key
                      /\ \A k \in 1..Len(lines) : lines[k][1] = key => k <= j
         IN  lines[i][2]
    ELSE default

\* a name with a space in it: one hyphen-free segment, two words
a_b == <<"a b">>

\* str.split() of the text of one written word
WordsOf(w) == IF w.name = a_b
              THEN <<Word(<<"a">>, w.con), Word(<<"b">>, w.con)>>
              ELSE <<w>>

\* pkg_data.get(key, '').split(): the value of a list line, as written,
\* cut at its whitespace
RECURSIVE SplitText(_)
SplitText(ws) == IF ws = <<>> THEN <<>>
                 ELSE WordsOf(Head(ws)) \o SplitText(Tail(ws))

ParsePackageFile(lines) ==
    IF ~HasKey(lines, "name") \/ ~HasKey(lines, "version")
    THEN None
    ELSE Package(GetKey(lines, "name", <<>>),
                 GetKey(lines, "version", ""),
                 GetKey(lines, "description", <<>>),
                 SplitText(GetKey(lines, "depends", <<>>)),
                 SplitText(GetKey(lines, "provides", <<>>)),
                 SplitText(GetKey(lines, "conflicts", <<>>)))

\* _load_installed_packages: every directory holding a parsable desc
LoadInstalledPackages(dsk) ==
    LET dirs == {d \in DOMAIN dsk :
                    dsk[d].hasdesc /\ ParsePackageFile(dsk[d].desc) # None}
        names == {ParsePackageFile(dsk[d].desc).name : d \in dirs}
    IN  [n \in names |->
            ParsePackageFile(dsk[CHOOSE d \in dirs :
                                   ParsePackageFile(dsk[d].desc).name = n].desc)]

(***************************************************************************)
(* Filesystem faults.  A call meets at most one failing filesystem          *)
(* operation: fault.at is the index in package_names of the package being   *)
(* processed when it fails (0: no failure), fault.op the failing operation, *)
(* fault.lines the number of desc lines that reached the disk before a      *)
(* failing write.                                                           *)
(***************************************************************************)
NoFault == [at |-> 0, op |-> "none", lines |-> 0]

InstallFaults(package_names) ==
    {NoFault}
    \cup {[at |-> i, op |-> o, lines |-> 0] :
             i \in 1..Len(package_names), o \in {"touch", "mkdir", "open"}}
    \cup {[at |-> i, op |-> "write", lines |-> k] :
             i \in 1..Len(package_names), k \in 0..(NumDescLines - 1)}

\* shutil.rmtree fails before deleting anything (lines = 0) or after
\* deleting desc and before deleting the directory (lines = 1)
RemoveFaults(package_names) ==
    {NoFault}
    \cup {[at |-> i, op |-> "rmtree", lines |-> k] :
             i \in 1..Len(package_names), k \in 0..1}

FaultAt(fault, i) == IF fault.at = i THEN fault ELSE NoFault

(***************************************************************************)
(* The state a call works on: the installed map, the disk, the flags of    *)
(* the running call and what it printed.                                    *)
(*   applied    names printed by "Successfully installed", in order         *)
(*   removed    names printed by "Successfully removed", in order           *)
(*   blocked    <<name, dependents>> printed by "Cannot remove"             *)
(*   considered names printed by "Checking for updates for", in order       *)
(***************************************************************************)
CallState(mem, dsk) ==
    [mem |-> mem, disk |-> dsk, success |-> TRUE, raised |-> FALSE,
     faulted |-> FALSE, applied |-> <<>>, removed |-> <<>>, blocked |-> {},
     considered |-> <<>>]

\* f"{pkg_name}-1.0.0.pkg.tar.zst"
CacheFile(pkg_name) == pkg_name \o <<"1.0.0.pkg.tar.zst">>

\* pkg_file.name.split('-')[0]
SplitFirst(file_name) == <<Head(file_name)>>

\* _install_package(pkg_file); f is the fault it meets, if any
InstallPackage(st, pkg_file, f) ==
    LET pkg_name == SplitFirst(pkg_file)
        pkg == Package(pkg_name, "1.0.0", <<"Installed from">> \o pkg_file,
                       <<>>, <<Word(pkg_name, "")>>, <<>>)
        st1 == [st EXCEPT !.mem = Put(st.mem, pkg_name, pkg)]
        old == IF pkg_name \in DOMAIN st.disk THEN st.disk[pkg_name] ELSE NoDesc
        lines == DescLines(pkg_name, pkg_file)
    IN  CASE f.op = "mkdir" ->
               [st1 EXCEPT !.raised = TRUE, !.faulted = TRUE]
          [] f.op = "open" ->
               [st1 EXCEPT !.disk = Put(st.disk, pkg_name, old),
                           !.raised = TRUE, !.faulted = TRUE]
          [] f.op = "write" ->
               [st1 EXCEPT !.disk = Put(st.disk, pkg_name,
                                        DescFile(SubSeq(lines, 1, f.lines))),
                           !.raised = TRUE, !.faulted = TRUE]
          [] OTHER ->
               [st1 EXCEPT !.disk = Put(st.disk, pkg_name, DescFile(lines)),
                           !.applied = Append(@, pkg_name)]

\* the loop of install(package_names, nodeps) from index i on
RECURSIVE InstallFrom(_, _, _, _)
InstallFrom(i, package_names, st, fault) ==
    IF i > Len(package_names) THEN st
    ELSE LET pkg_name == package_names[i] IN
         IF pkg_name \in DOMAIN st.mem
         THEN InstallFrom(i + 1, package_names, st, fault)
         ELSE IF FaultAt(fault, i).op = "touch"
         THEN [st EXCEPT !.raised = TRUE, !.faulted = TRUE]
         ELSE LET st1 == InstallPackage(st, CacheFile(pkg_name), FaultAt(fault, i))
              IN  IF st1.raised THEN st1
                  ELSE InstallFrom(i + 1, package_names, st1, fault)

\* install(package_names, nodeps): nodeps is accepted and never read
InstallCall(package_names, nodeps, st, fault) ==
    InstallFrom(1, package_names, st, fault)

\* _find_dependents with the membership test reversed: the packages that
\* package_name depends on
FindDependentsReversed(mem, package_name) ==
    {mem[k].name : k \in {x \in DOMAIN mem :
        package_name \in DOMAIN mem /\ InList(x, mem[package_name].depends)}}

\* _find_dependents(package_name)
FindDependents(mem, package_name) ==
    {mem[k].name : k \in {x \in DOMAIN mem : InList(package_name, mem[x].depends)}}

\* _remove_package(package_name); the result is in .success
RemovePackage(st, package_name, f) ==
    IF package_name \in DOMAIN st.disk /\ f.op = "rmtree"
    THEN [st EXCEPT !.disk = IF f.lines = 0 THEN st.disk
                              ELSE Put(st.disk, package_name, NoDesc),
                    !.success = FALSE, !.faulted = TRUE]
    ELSE [st EXCEPT !.disk = Del(st.disk, package_name),
                    !.mem = Del(st.mem, package_name),
                    !.removed = Append(@, package_name)]

\* the loop of remove(package_names, nodeps) from index i on
RECURSIVE RemoveFrom(_, _, _, _, _)
RemoveFrom(i, package_names, nodeps, st, fault) ==
    IF i > Len(package_names) THEN st
    ELSE LET pkg_name == package_names[i]
             dependents == FindDependents(st.mem, pkg_name)
         IN  IF pkg_name \notin DOMAIN st.mem
             THEN RemoveFrom(i + 1, package_names, nodeps, st, fault)
             ELSE IF ~nodeps /\ dependents # {}
             THEN RemoveFrom(i + 1, package_names, nodeps,
                             [st EXCEPT !.success = FALSE,
                                        !.blocked = @ \cup {<<pkg_name, dependents>>}],
                             fault)
             ELSE RemoveFrom(i + 1, package_names, nodeps,
                             RemovePackage(st, pkg_name, FaultAt(fault, i)), fault)

\* remove with nodeps dropped: the dependents are checked even when forced
RemoveCallAlwaysChecked(package_names, nodeps, st, fault) ==
    RemoveFrom(1, package_names, FALSE, st, fault)

\* remove(package_names, nodeps)
RemoveCall(package_names, nodeps, st, fault) ==
    RemoveFrom(1, package_names, nodeps, st, fault)

\* the loop of upgrade(package_names) from index i on; the result of the
\* nested install([pkg_name]) is dropped, an exception of it propagates
RECURSIVE UpgradeFrom(_, _, _)
UpgradeFrom(i, package_names, st) ==
    IF i > Len(package_names) THEN st
    ELSE LET pkg_name == package_names[i] IN
         IF pkg_name \notin DOMAIN st.mem
         THEN UpgradeFrom(i + 1, package_names, st)
         ELSE LET st1 == [st EXCEPT !.considered = Append(@, pkg_name)]
                  st2 == InstallCall(<<pkg_name>>, FALSE, st1, NoFault)
              IN  IF st2.raised THEN st2
                  ELSE UpgradeFrom(i + 1, package_names, st2)

\* list(self.installed_pkgs.keys()), in some order
RECURSIVE KeyList(_)
KeyList(S) == IF S = {} THEN <<>>
              ELSE LET k == CHOOSE x \in S : TRUE IN <<k>> \o KeyList(S \ {k})

\* upgrade whose nested install overwrites the record of an installed
\* package instead of skipping it
UpgradeCallReinstalling(package_names, is_none, st) ==
    LET st1 == UpgradeFrom(1, IF is_none THEN KeyList(DOMAIN st.mem)
                              ELSE package_names, st)
        fresh(n) == Package(n, "1.0.0", <<"Installed from">> \o CacheFile(n),
                            <<>>, <<Word(n, "")>>, <<>>)
    IN  [st1 EXCEPT !.mem = [n \in DOMAIN st1.mem |->
                               IF n \in Range(st1.considered) THEN fresh(n)
                               ELSE st1.mem[n]]]

\* upgrade(package_names): only None is replaced by the installed names
UpgradeCall(package_names, is_none, st) ==
    UpgradeFrom(1, IF is_none THEN KeyList(DOMAIN st.mem) ELSE package_names, st)

Result(st) == IF st.raised THEN "raised" ELSE IF st.success THEN "True" ELSE "False"

(***************************************************************************)
(* class MirrorManager (src/syzygia/mirror.py).  A URL is the record of its *)
(* scheme, host and path.  dest is the file at the destination path of a    *)
(* fetch: absent, or the bytes a mirror wrote there.                        *)
(***************************************************************************)
Url(scheme, netloc, path) == [scheme |-> scheme, netloc |-> netloc, path |-> path]

\* Config.defaults['mirrors']['servers'], what get_mirrors returns when the
\* mirrorlist file holds no mirror
DefaultServer == Url("https", "archlinux.org", "/mirrorlist/")

m1 == Url("https", "m1.example", "/")
m2 == Url("https", "m2.example", "/")
m3 == Url("file", "", "/srv/mirror")

MirrorUrls == {m1, m2, m3}

\* mirror.startswith('file://')
IsLocal(mirror) == mirror.scheme = "file"

\* the mirror lists a mirrorlist file of at most n lines can hold
MirrorLists(n) ==
    {s \in UNION {[1..k -> MirrorUrls] : k \in 1..n} :
        \A i, j \in 1..Len(s) : i # j => s[i] # s[j]}

\* the mirrorlist file: absent, or its mirror lines in order
NoMirrorList == [exists |-> FALSE, lines |-> <<>>]
MirrorFile(lines) == [exists |-> TRUE, lines |-> lines]

\* file://localhost/srv/mirror: a file URL that names a host
m3h == Url("file", "localhost", "/srv/mirror")

\* the URLs handed to add_mirror and remove_mirror
GivenUrls == {m1, m3, m3h, DefaultServer}

\* Config.get_mirrors()
GetMirrors(file) ==
    IF file.exists /\ file.lines # <<>> THEN file.lines ELSE <<DefaultServer>>

\* Config.add_mirror(mirror_url): one more line at the end of the file
ConfigAddMirror(file, mirror_url) == MirrorFile(Append(file.lines, mirror_url))

\* list.remove(x): the list without its first x
RECURSIVE ListRemove(_, _)
ListRemove(l, x) == IF l = <<>> THEN <<>>
                    ELSE IF Head(l) = x THEN Tail(l)
                    ELSE <<Head(l)>> \o ListRemove(Tail(l), x)

\* Config.remove_mirror(mirror_url): the result and the file afterwards
ConfigRemoveMirror(file, mirror_url) ==
    IF ~file.exists THEN [ok |-> FALSE, file |-> file]
    ELSE IF mirror_url \in Range(file.lines) THEN
         [ok |-> TRUE, file |-> MirrorFile(ListRemove(file.lines, mirror_url))]
    ELSE [ok |-> FALSE, file |-> file]

\* _validate_mirror(mirror_url); path_exists is os.path.exists(parsed.path),
\* head_ok whether the HEAD request answers 200
ValidateMirror(mirror_url, path_exists, head_ok) ==
    IF mirror_url.scheme = "" \/ mirror_url.netloc = "" THEN FALSE
    ELSE IF mirror_url.scheme = "file" THEN path_exists
    ELSE IF mirror_url.scheme \in {"http", "https"} THEN head_ok
    ELSE FALSE

\* add_mirror(mirror_url): the result, the file and self.mirrors afterwards
AddMirrorCall(file, lst, mirror_url, path_exists, head_ok) ==
    IF ~ValidateMirror(mirror_url, path_exists, head_ok)
    THEN [ok |-> FALSE, file |-> file, mirrors |-> lst]
    ELSE LET f == ConfigAddMirror(file, mirror_url)
         IN  [ok |-> TRUE, file |-> f, mirrors |-> GetMirrors(f)]

\* remove_mirror(mirror_url)
RemoveMirrorCall(file, lst, mirror_url) ==
    LET r == ConfigRemoveMirror(file, mirror_url)
    IN  [ok |-> r.ok, file |-> r.file,
         mirrors |-> IF r.ok THEN GetMirrors(r.file) ELSE lst]

NoFile == [exists |-> FALSE, from |-> None, bytes |-> "", partial |-> FALSE]
OldFile == [exists |-> TRUE, from |-> None, bytes |-> "old", partial |-> FALSE]
FileFrom(mirror, bytes, partial) ==
    [exists |-> TRUE, from |-> mirror, bytes |-> bytes, partial |-> partial]

(***************************************************************************)
(* What a mirror does when asked for the file:                              *)
(*   "unreachable"  the request fails before the destination is opened      *)
(*                  (connection error, HTTP error status, missing source,   *)
(*                  makedirs failure)                                       *)
(*   "midstream"    the transfer breaks after part of the file was written  *)
(*   "ok"           the transfer completes                                  *)
(* and the bytes it serves: "good" (their digest is the expected checksum)  *)
(* or "poisoned" (it is not).                                               *)
(***************************************************************************)
Outcomes == {"unreachable", "midstream", "ok"}
Contents == {"good", "poisoned"}

FetchState(file) ==
    [dest |-> file, raised |-> FALSE, returned |-> FALSE, attempts |-> <<>>,
     served |-> None]

\* _download_remote(base_url, file_path, destination)
DownloadRemote(st, base_url, outcome, bytes) ==
    CASE outcome = "unreachable" -> [st EXCEPT !.raised = TRUE]
      [] outcome = "midstream" ->
           [st EXCEPT !.dest = FileFrom(base_url, bytes, TRUE), !.raised = TRUE]
      [] OTHER ->
           [st EXCEPT !.dest = FileFrom(base_url, bytes, FALSE),
                      !.returned = TRUE, !.served = base_url]

\* _download_local(base_path, file_path, destination): shutil.copy2
DownloadLocal(st, base_path, outcome, bytes) ==
    CASE outcome = "unreachable" -> [st EXCEPT !.raised = TRUE]
      [] outcome = "midstream" ->
           [st EXCEPT !.dest = FileFrom(base_path, bytes, TRUE), !.raised = TRUE]
      [] OTHER ->
           [st EXCEPT !.dest = FileFrom(base_path, bytes, FALSE),
                      !.returned = TRUE, !.served = base_path]

\* the loop of download_file over self.mirrors from index i on
RECURSIVE DownloadFrom(_, _, _, _, _)
DownloadFrom(i, mirror_list, st, behav, serves) ==
    IF i > Len(mirror_list) THEN st
    ELSE LET mirror == mirror_list[i]
             st0 == [st EXCEPT !.raised = FALSE,
                               !.attempts = Append(@, mirror)]
             st1 == IF IsLocal(mirror)
                    THEN DownloadLocal(st0, mirror, behav[mirror], serves[mirror])
                    ELSE DownloadRemote(st0, mirror, behav[mirror], serves[mirror])
         IN  IF st1.returned THEN st1
             ELSE DownloadFrom(i + 1, mirror_list, st1, behav, serves)

\* download_file stopping at the first mirror, whether it serves the file or
\* fails (the except branch returning instead of continuing)
DownloadFileFirstOnly(mirror_list, file, behav, serves) ==
    DownloadFrom(1, SubSeq(mirror_list, 1, 1), FetchState(file), behav, serves)

\* download_file whose loop starts at the second mirror of the list
DownloadFileSkippingFirst(mirror_list, file, behav, serves) ==
    DownloadFrom(2, mirror_list, FetchState(file), behav, serves)

\* download_file(file_path, destination)
DownloadFileCall(mirror_list, file, behav, serves) ==
    DownloadFrom(1, mirror_list, FetchState(file), behav, serves)

NoMirrorCall ==
    [op |-> "none", result |-> "none", attempts |-> <<>>, served |-> None,
     best |-> None, behav |-> EmptyDict, serves |-> EmptyDict,
     pre_dest |-> NoFile, pre_stats |-> EmptyDict]

\* MirrorManager.__init__ with no mirrorlist file, as the CLI constructs it
MirrorsAtRest ==
    /\ mirrors = <<DefaultServer>>
    /\ mirrorlist = NoMirrorList
    /\ mirror_stats = EmptyDict
    /\ dest = NoFile
    /\ mlast = NoMirrorCall

(***************************************************************************)
(* class Repository, class RepositoryManager (src/syzygia/repo.py).  repos  *)
(* is the dict self.repos as its list of values in insertion order.         *)
(***************************************************************************)
Repository(name, url, sig_level) ==
    [name |-> name, url |-> url, sig_level |-> sig_level,
     packages |-> EmptyDict, initialized |-> FALSE]

\* Repository.initialize: loads nothing, sets _initialized, returns True
Initialize(repo) == [repo EXCEPT !.initialized = TRUE]

RepoNames == {"core", "extra", "community"}

RepoUrl(name) == Url("https", "archlinux.org", <<"packages", name, "os", "x86_64">>)

HasRepo(rs, name) == \E i \in 1..Len(rs) : rs[i].name = name

\* self.repos[name] = repo: a new key goes to the end of the dict
AddRepoTo(rs, name, url, sig_level) ==
    IF HasRepo(rs, name) THEN rs
    ELSE Append(rs, Initialize(Repository(name, url, sig_level)))

\* del self.repos[name]
RECURSIVE RemoveRepoFrom(_, _)
RemoveRepoFrom(rs, name) ==
    IF rs = <<>> THEN <<>>
    ELSE IF Head(rs).name = name THEN Tail(rs)
    ELSE <<Head(rs)>> \o RemoveRepoFrom(Tail(rs), name)

\* _load_repos
LoadRepos ==
    AddRepoTo(AddRepoTo(AddRepoTo(<<>>, "core", RepoUrl("core"), "Optional"),
                        "extra", RepoUrl("extra"), "Optional"),
              "community", RepoUrl("community"), "Optional")

\* RepositoryManager.find_package: the first repository, in dict order,
\* whose packages hold pkg_name
RECURSIVE FindPackageIn(_, _)
FindPackageIn(rs, pkg_name) ==
    IF rs = <<>> THEN None
    ELSE IF pkg_name \in DOMAIN Head(rs).packages
         THEN [repo_name |-> Head(rs).name, pkg |-> Head(rs).packages[pkg_name]]
         ELSE FindPackageIn(Tail(rs), pkg_name)

NoRepoCall == [op |-> "none", name |-> "", result |-> None]

\* RepositoryManager.__init__
ReposAtRest ==
    /\ repos = LoadRepos
    /\ rlast = NoRepoCall

\* a PackageManager or MirrorManager on its own: PackageManager.__init__
\* takes a config and a mirror manager, no RepositoryManager exists
NoRepositoryManager ==
    /\ repos = <<>>
    /\ rlast = NoRepoCall

(***************************************************************************)
(* src/syzygia/utils/validator.py.  A string is the sequence of its         *)
(* characters.  The alphabet has letters, a digit, the punctuation the two  *)
(* patterns allow, one character neither allows, and the newline.           *)
(***************************************************************************)
Letters == {"a", "Z"}
Digits == {"0", "1", "2"}
Alphabet == Letters \cup Digits \cup {"@", ".", "_", "+", "-", ":", "~", "!", "\n"}

\* strings of at most n characters
Strings(n) == UNION {[1..k -> Alphabet] : k \in 0..n}

\* str.isalnum / str.isdigit of one character
IsAlnum(c) == c \in Letters \cup Digits
IsDigit(c) == c \in Digits

\* the character classes [a-zA-Z0-9@._+-] and [a-zA-Z0-9._+:~-]
NameClass == Letters \cup Digits \cup {"@", ".", "_", "+", "-"}
VersionClass == Letters \cup Digits \cup {".", "_", "+", ":", "~", "-"}

\* re.match(r'^[class]+$', str): $ also matches before one trailing newline
ReMatch(class, str) ==
    LET body == IF str # <<>> /\ str[Len(str)] = "\n"
                THEN SubSeq(str, 1, Len(str) - 1) ELSE str
    IN  body # <<>> /\ \A i \in 1..Len(body) : body[i] \in class

Verdict(is_valid, error) == [is_valid |-> is_valid, error |-> error]

\* validate_package_name that lets a name start with an underscore
ValidatePackageNameLeadingUnderscore(name) ==
    IF name = <<>>
    THEN Verdict(FALSE, "Package name cannot be empty")
    ELSE IF ~ReMatch(NameClass, name)
    THEN Verdict(FALSE, "Package name contains invalid characters")
    ELSE IF ~(IsAlnum(name[1]) \/ name[1] = "_")
    THEN Verdict(FALSE, "Package name must start with an alphanumeric character")
    ELSE IF ~(IsAlnum(name[Len(name)]) \/ name[Len(name)] = "_")
    THEN Verdict(FALSE, "Package name must end with an alphanumeric character or underscore")
    ELSE Verdict(TRUE, "")

\* validate_package_name(name)
ValidatePackageName(name) ==
    IF name = <<>>
    THEN Verdict(FALSE, "Package name cannot be empty")
    ELSE IF ~ReMatch(NameClass, name)
    THEN Verdict(FALSE, "Package name contains invalid characters")
    ELSE IF ~IsAlnum(name[1])
    THEN Verdict(FALSE, "Package name must start with an alphanumeric character")
    ELSE IF ~(IsAlnum(name[Len(name)]) \/ name[Len(name)] = "_")
    THEN Verdict(FALSE, "Package name must end with an alphanumeric character or underscore")
    ELSE Verdict(TRUE, "")

\* validate_package_version(version)
ValidatePackageVersion(version) ==
    IF version = <<>>
    THEN Verdict(FALSE, "Version cannot be empty")
    ELSE IF ~IsDigit(version[1])
    THEN Verdict(FALSE, "Version must start with a digit")
    ELSE IF ~ReMatch(VersionClass, version)
    THEN Verdict(FALSE, "Version contains invalid characters")
    ELSE Verdict(TRUE, "")

NoVerdict == [op |-> "none"]

(***************************************************************************)
(* src/syzygia/utils/downloader.py.  What one attempt of download_file      *)
(* meets is chosen by the environment:                                      *)
(*   "unreachable"     the request fails before the destination is opened   *)
(*   "midstream"       the transfer breaks after part of the file is written*)
(*   "size_mismatch"   the file is written but is not content-length long   *)
(*   "cleanup_raises"  the transfer breaks and os.remove of the partial     *)
(*                     file raises, out of the except block                 *)
(*   "good"            the transfer completes, the bytes have the expected  *)
(*                     digest                                               *)
(*   "poisoned"        the transfer completes with other bytes              *)
(*   "poisoned_stuck"  the same, and the file cannot be removed afterwards  *)
(***************************************************************************)
AttemptOutcomes ==
    {"unreachable", "midstream", "size_mismatch", "cleanup_raises",
     "good", "poisoned", "poisoned_stuck"}

the_url == Url("https", "m1.example", "/pkg")

\* hexdigest of the file's bytes
Digest(file) == CASE file.partial -> "000"
                  [] file.bytes = "good" -> "abc"
                  [] file.bytes = "poisoned" -> "fff"
                  [] OTHER -> "0ld"

\* an Optional[str] argument that is a string
Some(str) == [str |-> str]

\* the checksum argument: None, '' or the expected digest in either case
Checksums == {None, Some(""), Some("abc"), Some("ABC")}

\* str.lower
Lower(str) == IF str = "ABC" THEN "abc" ELSE str

\* truth value of an Optional[str]
Truthy(x) == x # None /\ x.str # ""

Algorithms == {"sha256", "bogus"}

\* download_file(url, destination): the file left and what the call returns
UtilDownloadFile(file, url, outcome) ==
    CASE outcome \in {"unreachable", "midstream", "size_mismatch"} ->
           [dest |-> NoFile, ret |-> "False"]
      [] outcome = "cleanup_raises" ->
           [dest |-> FileFrom(url, "good", TRUE), ret |-> "raised"]
      [] outcome = "good" ->
           [dest |-> FileFrom(url, "good", FALSE), ret |-> "True"]
      [] OTHER ->
           [dest |-> FileFrom(url, "poisoned", FALSE), ret |-> "True"]

\* verify_checksum(file_path, checksum, algorithm)
VerifyChecksum(file, checksum, algorithm) ==
    /\ file.exists
    /\ algorithm = "sha256"
    /\ Digest(file) = Lower(checksum.str)

RECURSIVE Pow2(_)
Pow2(k) == IF k = 0 THEN 1 ELSE 2 * Pow2(k - 1)

\* retry_delay = 2 ** attempt, doubled
RetryDelayDoubled(attempt) == 2 * Pow2(attempt)

\* retry_delay = 2 ** attempt
RetryDelay(attempt) == Pow2(attempt)

RetryState(file) ==
    [dest |-> file, ret |-> "none", attempts |-> <<>>, sleeps |-> <<>>]

\* the loop of download_with_retry from `attempt` on; behav[attempt + 1] is
\* what that attempt meets
RECURSIVE RetryFrom(_, _, _, _, _, _, _)
RetryFrom(attempt, st, url, max_retries, checksum, algorithm, behav) ==
    IF attempt >= max_retries THEN [st EXCEPT !.ret = "False"]
    ELSE LET outcome == behav[attempt + 1]
             d == UtilDownloadFile(st.dest, url, outcome)
             st1 == [st EXCEPT !.dest = d.dest, !.attempts = Append(@, outcome)]
         IN  IF d.ret = "raised" THEN [st1 EXCEPT !.ret = "raised"]
             ELSE IF d.ret = "True" /\ ~Truthy(checksum)
             THEN [st1 EXCEPT !.ret = "True"]
             ELSE IF d.ret = "True" /\ VerifyChecksum(d.dest, checksum, algorithm)
             THEN [st1 EXCEPT !.ret = "True"]
             ELSE LET st2 == IF d.ret = "True" /\ outcome # "poisoned_stuck"
                             THEN [st1 EXCEPT !.dest = NoFile]
                             ELSE st1
                      st3 == IF attempt < max_retries - 1
                             THEN [st2 EXCEPT !.sleeps =
                                                 Append(@, RetryDelay(attempt))]
                             ELSE st2
                  IN  RetryFrom(attempt + 1, st3, url, max_retries, checksum,
                                algorithm, behav)

\* download_with_retry that never verifies the checksum
DownloadWithRetryUnverified(file, url, max_retries, checksum, algorithm, behav) ==
    RetryFrom(0, RetryState(file), url, max_retries, None, algorithm, behav)

\* download_with_retry that goes on to an attempt after the last one
DownloadWithRetryOneMore(file, url, max_retries, checksum, algorithm, behav) ==
    RetryFrom(0, RetryState(file), url, max_retries + 1, checksum, algorithm,
              [i \in 1..(max_retries + 1) |->
                  IF i \in DOMAIN behav THEN behav[i] ELSE "unreachable"])

\* download_with_retry(url, destination, max_retries, checksum,
\* checksum_algorithm)
DownloadWithRetry(file, url, max_retries, checksum, algorithm, behav) ==
    RetryFrom(0, RetryState(file), url, max_retries, checksum, algorithm, behav)

NoDownload == [op |-> "none"]

\* no validator and no download in progress
UtilsAtRest ==
    /\ vin = <<>>
    /\ vout = NoVerdict
    /\ dlast = NoDownload

(***************************************************************************)
(* class SyzygiaCLI (src/syzygia/cli.py).  run(args) reads the command     *)
(* word from args or, when args is None or empty, from sys.argv[1:2], and  *)
(* calls the attribute of that name.  argv is sys.argv[1:2], args the       *)
(* argument of the running activation of run, depth the number of           *)
(* activations of run below it.                                             *)
(***************************************************************************)
RecursionLimit == 4

\* the command handlers of SyzygiaCLI
Commands == {"install", "remove", "update", "upgrade", "search", "list",
             "mirror", "repo"}

\* the instance attributes __init__ sets: none of them can be called
Fields == {"config", "mirror_manager", "repo_manager", "pkg_manager", "parser"}

\* the words a caller may pass
CommandWords == Commands \cup Fields \cup {"run", "__init__", "frobnicate", "main"}

\* hasattr(self, word)
HasAttr(word) == word \in Commands \cup Fields \cup {"run", "__init__"}

\* run has not been called
NoCommandLine == cli = [status |-> "none"]

RunState(argv, args) ==
    [status |-> "running", argv |-> argv, args |-> args,
     word |-> IF args # <<>> THEN args ELSE argv,
     depth |-> 0, outcome |-> "none", ret |-> "none", invoked |-> "none"]

Exit(c, outcome, ret, invoked) ==
    [c EXCEPT !.status = "done", !.outcome = outcome, !.ret = ret,
              !.invoked = invoked]

\* one activation of run(args)
Run(c) ==
    IF c.argv = <<>> THEN Exit(c, "help", "0", "none")
    ELSE LET parsed == IF c.args # <<>> THEN c.args ELSE c.argv
             command == parsed[1]
         IN  IF ~HasAttr(command) THEN Exit(c, "unknown", "1", "none")
             ELSE IF command \in Commands
                  THEN Exit(c, "handler", "handler", command)
             ELSE IF command \in Fields
                  THEN Exit(c, "TypeError", "raised", command)
             ELSE IF command = "__init__"
                  THEN Exit(c, "returned", "None", command)
             ELSE IF c.depth = RecursionLimit
                  THEN Exit(c, "RecursionError", "raised", command)
                  ELSE [c EXCEPT !.depth = @ + 1, !.args = <<>>,
                                 !.invoked = command]

(***************************************************************************)
(* The databases a PackageManager may be constructed over: desc files in    *)
(* the format _parse_package_file reads, one directory per package.  foo    *)
(* may depend on bar (by name, by a versioned constraint, or through the    *)
(* capability cap); bar may provide cap and may conflict with foo.          *)
(***************************************************************************)
DescOf(pkg) ==
    << <<"name", pkg.name>>,
       <<"version", pkg.version>>,
       <<"description", pkg.description>>,
       <<"depends", pkg.depends>>,
       <<"provides", pkg.provides>>,
       <<"conflicts", pkg.conflicts>> >>

FooRecords ==
    {Package(foo, "1.0.0", <<>>, d, <<>>, <<>>) :
        d \in {<<>>, <<Word(bar, "")>>, <<Word(bar, ">=2.0")>>, <<Word(cap, "")>>}}
BarRecords ==
    {Package(bar, "1.0.0", <<>>, <<>>, p, c) :
        p \in {<<>>, <<Word(cap, "")>>}, c \in {<<>>, <<Word(foo, "")>>}}
BazRecords ==
    {Package(baz, "1.0.0", <<>>, <<>>, <<>>, <<>>)}

InitDatabases ==
    {[n \in {r.name : r \in R} |->
         DescFile(DescOf(CHOOSE r \in R : r.name = n))] :
       R \in {X \in SUBSET (FooRecords \cup BarRecords \cup BazRecords) :
                 \A r1, r2 \in X : r1.name = r2.name => r1 = r2}}

(***************************************************************************)
(* One PackageManager used by one caller at a time (the CLI): each action   *)
(* is a whole call.  pc is the caller's position: "idle" before a call,     *)
(* "returned" when the call has returned or raised and last holds what the  *)
(* caller observes of it.                                                   *)
(***************************************************************************)
NoCall ==
    [op |-> "none", package_names |-> <<>>, nodeps |-> FALSE, is_none |-> FALSE,
     result |-> "none", faulted |-> FALSE, applied |-> <<>>, removed |-> <<>>,
     blocked |-> {}, considered |-> <<>>,
     pre_installed |-> EmptyDict, pre_disk |-> EmptyDict]

Observed(op, package_names, nodeps, is_none, st) ==
    [op |-> op, package_names |-> package_names, nodeps |-> nodeps,
     is_none |-> is_none, result |-> Result(st), faulted |-> st.faulted,
     applied |-> st.applied, removed |-> st.removed, blocked |-> st.blocked,
     considered |-> st.considered,
     pre_installed |-> installed_pkgs, pre_disk |-> disk]

NoThreads == [t \in {} |-> 0]

\* PackageManager.__init__ over an existing database
Init ==
    /\ NoCommandLine
    /\ disk \in InitDatabases
    /\ installed_pkgs = LoadInstalledPackages(disk)
    /\ available_pkgs = EmptyDict
    /\ pc = "idle"
    /\ last = NoCall
    /\ ncalls = 0
    /\ th = NoThreads
    /\ MirrorsAtRest
    /\ UtilsAtRest
    /\ NoRepositoryManager

Finish(op, package_names, nodeps, is_none, st) ==
    /\ installed_pkgs' = st.mem
    /\ disk' = st.disk
    /\ last' = Observed(op, package_names, nodeps, is_none, st)
    /\ pc' = "returned"
    /\ ncalls' = ncalls + 1
    /\ UNCHANGED <<cli_vars, util_vars, mirror_vars, repo_vars, available_pkgs, th>>

Install ==
    /\ pc = "idle" /\ ncalls < MaxCalls
    /\ \E package_names \in NameLists(MaxNames), nodeps \in BOOLEAN :
         \E fault \in InstallFaults(package_names) :
            Finish("install", package_names, nodeps, FALSE,
                   InstallCall(package_names, nodeps,
                               CallState(installed_pkgs, disk), fault))

Remove ==
    /\ pc = "idle" /\ ncalls < MaxCalls
    /\ \E package_names \in NameLists(MaxNames), nodeps \in BOOLEAN :
         \E fault \in RemoveFaults(package_names) :
            Finish("remove", package_names, nodeps, FALSE,
                   RemoveCall(package_names, nodeps,
                              CallState(installed_pkgs, disk), fault))

\* update() only prints and returns True
Upgrade ==
    /\ pc = "idle" /\ ncalls < MaxCalls
    /\ \E package_names \in NameLists(MaxNames), is_none \in BOOLEAN :
         /\ is_none => package_names = <<>>
         /\ Finish("upgrade", package_names, FALSE, is_none,
                   UpgradeCall(package_names, is_none,
                               CallState(installed_pkgs, disk)))

\* the caller takes the result; the next call may start
Return ==
    /\ pc = "returned"
    /\ pc' = "idle"
    /\ last' = NoCall
    /\ UNCHANGED <<cli_vars, util_vars, mirror_vars, repo_vars, installed_pkgs, available_pkgs, disk, ncalls, th>>

Next == Install \/ Remove \/ Upgrade \/ Return

Spec == Init /\ [][Next]_vars

(***************************************************************************)
(* A PackageManager constructed over a database whose one record, foo, was  *)
(* written with any version string: the four well-formed ones of the        *)
(* ordering example, the empty string and one that starts with a letter.    *)
(***************************************************************************)
LoadVersions == {"1.0-1", "1.0-2", "1.1-1", "2:1.0-1", "", "a.1"}

\* the characters of a version string
CharsOf(str) ==
    CASE str = "" -> <<>>
      [] str = "a.1" -> <<"a", ".", "1">>
      [] str = "1.0-1" -> <<"1", ".", "0", "-", "1">>
      [] str = "1.0-2" -> <<"1", ".", "0", "-", "2">>
      [] str = "1.1-1" -> <<"1", ".", "1", "-", "1">>
      [] str = "2:1.0-1" -> <<"2", ":", "1", ".", "0", "-", "1">>
      [] str = "1.0.0" -> <<"1", ".", "0", ".", "0">>

LoadDatabases ==
    {[n \in {foo} |-> DescFile(DescOf(Package(foo, v, <<>>, <<>>, <<>>, <<>>)))] :
        v \in LoadVersions}

LoadInit ==
    /\ NoCommandLine
    /\ disk \in LoadDatabases
    /\ installed_pkgs = LoadInstalledPackages(disk)
    /\ available_pkgs = EmptyDict
    /\ pc = "idle"
    /\ last = NoCall
    /\ ncalls = 0
    /\ th = NoThreads
    /\ MirrorsAtRest
    /\ UtilsAtRest
    /\ NoRepositoryManager

LoadSpec == LoadInit /\ [][Next]_vars

(***************************************************************************)
(* The web front end (src/web.py): every request handler calls install,     *)
(* remove or upgrade with a one-name list on the one module-level           *)
(* pkg_manager, and requests are served by concurrent threads.  A thread    *)
(* step is one access to the installed map or to the disk; th[t].pc is the  *)
(* thread's position in package.py.                                         *)
(***************************************************************************)
Threads == 1..NumThreads

IdleThread == [pc |-> "idle", op |-> "none", pkg_name |-> <<>>, result |-> "none"]

InFlight(t) == th[t].pc # "idle"

ConcInit ==
    /\ NoCommandLine
    /\ disk \in InitDatabases
    /\ installed_pkgs = LoadInstalledPackages(disk)
    /\ available_pkgs = EmptyDict
    /\ pc = "idle"
    /\ last = NoCall
    /\ ncalls = 0
    /\ th = [t \in Threads |-> IdleThread]
    /\ MirrorsAtRest
    /\ UtilsAtRest
    /\ NoRepositoryManager

Goto(t, label) == th' = [th EXCEPT ![t].pc = label]
Done(t, result) == th' = [th EXCEPT ![t].pc = "done", ![t].result = result]

\* a request arrives: install_package / remove_package / upgrade_package
Request(t) ==
    /\ th[t].pc = "idle" /\ ncalls < MaxRequests
    /\ \E op \in {"install", "remove", "upgrade"}, package_name \in ReqNames :
         th' = [th EXCEPT ![t] = [pc |-> CASE op = "install" -> "i_check"
                                            [] op = "remove" -> "r_check"
                                            [] OTHER -> "u_check",
                                  op |-> op, pkg_name |-> package_name,
                                  result |-> "none"]]
    /\ ncalls' = ncalls + 1
    /\ UNCHANGED <<cli_vars, util_vars, mirror_vars, repo_vars, installed_pkgs, available_pkgs, disk, pc, last>>

\* upgrade: if pkg_name not in self.installed_pkgs, else install([pkg_name])
UpgradeCheck(t) ==
    /\ th[t].pc = "u_check"
    /\ IF th[t].pkg_name \in DOMAIN installed_pkgs
       THEN Goto(t, "i_check") ELSE Done(t, "True")
    /\ UNCHANGED <<cli_vars, util_vars, mirror_vars, repo_vars, installed_pkgs, available_pkgs, disk, pc, last, ncalls>>

\* install: if pkg_name in self.installed_pkgs
InstallCheck(t) ==
    /\ th[t].pc = "i_check"
    /\ IF th[t].pkg_name \in DOMAIN installed_pkgs
       THEN Done(t, "True") ELSE Goto(t, "i_touch")
    /\ UNCHANGED <<cli_vars, util_vars, mirror_vars, repo_vars, installed_pkgs, available_pkgs, disk, pc, last, ncalls>>

\* install: pkg_file.touch()
InstallTouch(t) ==
    /\ th[t].pc = "i_touch"
    /\ \E ok \in BOOLEAN : IF ok THEN Goto(t, "i_mem") ELSE Done(t, "raised")
    /\ UNCHANGED <<cli_vars, util_vars, mirror_vars, repo_vars, installed_pkgs, available_pkgs, disk, pc, last, ncalls>>

\* _install_package: self.installed_pkgs[pkg_name] = pkg
InstallMem(t) ==
    /\ th[t].pc = "i_mem"
    /\ LET pkg_file == CacheFile(th[t].pkg_name)
           pkg_name == SplitFirst(pkg_file)
       IN  installed_pkgs' =
              Put(installed_pkgs, pkg_name,
                  Package(pkg_name, "1.0.0", <<"Installed from">> \o pkg_file,
                          <<>>, <<Word(pkg_name, "")>>, <<>>))
    /\ Goto(t, "i_mkdir")
    /\ UNCHANGED <<cli_vars, util_vars, mirror_vars, repo_vars, available_pkgs, disk, pc, last, ncalls>>

\* _install_package: pkg_dir.mkdir(parents=True, exist_ok=True)
InstallMkdir(t) ==
    /\ th[t].pc = "i_mkdir"
    /\ LET pkg_name == SplitFirst(CacheFile(th[t].pkg_name)) IN
       \E ok \in BOOLEAN :
          IF ok
          THEN /\ disk' = Put(disk, pkg_name,
                              IF pkg_name \in DOMAIN disk THEN disk[pkg_name]
                              ELSE NoDesc)
               /\ Goto(t, "i_write")
          ELSE /\ disk' = disk
               /\ Done(t, "raised")
    /\ UNCHANGED <<cli_vars, util_vars, mirror_vars, repo_vars, installed_pkgs, available_pkgs, pc, last, ncalls>>

\* _install_package: with open(pkg_dir / 'desc', 'w') as f: f.write(...)
\* (open fails when the directory has been deleted in the meantime)
InstallWrite(t) ==
    /\ th[t].pc = "i_write"
    /\ LET pkg_file == CacheFile(th[t].pkg_name)
           pkg_name == SplitFirst(pkg_file)
           lines == DescLines(pkg_name, pkg_file)
       IN  IF pkg_name \notin DOMAIN disk
           THEN disk' = disk /\ Done(t, "raised")
           ELSE \/ disk' = Put(disk, pkg_name, DescFile(lines)) /\ Done(t, "True")
                \/ disk' = disk /\ Done(t, "raised")
                \/ \E k \in 0..(NumDescLines - 1) :
                      /\ disk' = Put(disk, pkg_name, DescFile(SubSeq(lines, 1, k)))
                      /\ Done(t, "raised")
    /\ UNCHANGED <<cli_vars, util_vars, mirror_vars, repo_vars, installed_pkgs, available_pkgs, pc, last, ncalls>>

\* remove: if pkg_name not in self.installed_pkgs
RemoveCheck(t) ==
    /\ th[t].pc = "r_check"
    /\ IF th[t].pkg_name \in DOMAIN installed_pkgs
       THEN Goto(t, "r_deps") ELSE Done(t, "True")
    /\ UNCHANGED <<cli_vars, util_vars, mirror_vars, repo_vars, installed_pkgs, available_pkgs, disk, pc, last, ncalls>>

\* remove: dependents = self._find_dependents(pkg_name)  (nodeps is False)
RemoveDeps(t) ==
    /\ th[t].pc = "r_deps"
    /\ IF FindDependents(installed_pkgs, th[t].pkg_name) # {}
       THEN Done(t, "False") ELSE Goto(t, "r_rmtree")
    /\ UNCHANGED <<cli_vars, util_vars, mirror_vars, repo_vars, installed_pkgs, available_pkgs, disk, pc, last, ncalls>>

\* _remove_package: if pkg_dir.exists(): shutil.rmtree(pkg_dir)
RemoveRmtree(t) ==
    /\ th[t].pc = "r_rmtree"
    /\ IF th[t].pkg_name \notin DOMAIN disk
       THEN disk' = disk /\ Goto(t, "r_del")
       ELSE \/ disk' = Del(disk, th[t].pkg_name) /\ Goto(t, "r_del")
            \/ disk' = disk /\ Done(t, "False")
            \/ disk' = Put(disk, th[t].pkg_name, NoDesc) /\ Done(t, "False")
    /\ UNCHANGED <<cli_vars, util_vars, mirror_vars, repo_vars, installed_pkgs, available_pkgs, pc, last, ncalls>>

\* _remove_package: if package_name in self.installed_pkgs: del ...
RemoveDel(t) ==
    /\ th[t].pc = "r_del"
    /\ installed_pkgs' = Del(installed_pkgs, th[t].pkg_name)
    /\ Done(t, "True")
    /\ UNCHANGED <<cli_vars, util_vars, mirror_vars, repo_vars, available_pkgs, disk, pc, last, ncalls>>

\* the handler returns redirect(url_for("index")), dropping the result
Respond(t) ==
    /\ th[t].pc = "done"
    /\ th' = [th EXCEPT ![t] = IdleThread]
    /\ UNCHANGED <<cli_vars, util_vars, mirror_vars, repo_vars, installed_pkgs, available_pkgs, disk, pc, last, ncalls>>

ConcNext ==
    \E t \in Threads :
        \/ Request(t)
        \/ UpgradeCheck(t)
        \/ InstallCheck(t)
        \/ InstallTouch(t)
        \/ InstallMem(t)
        \/ InstallMkdir(t)
        \/ InstallWrite(t)
        \/ RemoveCheck(t)
        \/ RemoveDeps(t)
        \/ RemoveRmtree(t)
        \/ RemoveDel(t)
        \/ Respond(t)

ConcSpec == ConcInit /\ [][ConcNext]_vars

(***************************************************************************)
(* One MirrorManager used by one caller.  Each action is a whole call; the  *)
(* behaviour of every mirror during a fetch is chosen by the environment.   *)
(* mlast holds what the caller observes of the call that has just returned. *)
(***************************************************************************)
PackageManagerAtRest ==
    /\ disk = EmptyDict
    /\ installed_pkgs = EmptyDict
    /\ available_pkgs = EmptyDict
    /\ pc = "idle"
    /\ last = NoCall
    /\ ncalls = 0
    /\ th = NoThreads

\* MirrorManager.__init__ over a mirrorlist file of at most MaxMirrors lines
MirrorInit ==
    /\ NoCommandLine
    /\ mirrors \in MirrorLists(MaxMirrors)
    /\ mirrorlist = MirrorFile(mirrors)
    /\ mirror_stats = EmptyDict
    /\ dest \in {NoFile, OldFile}
    /\ mlast = NoMirrorCall
    /\ PackageManagerAtRest
    /\ NoRepositoryManager
    /\ UtilsAtRest

\* download_file(file_path, destination): writes destination only
DownloadFile ==
    /\ mlast.op = "none"
    /\ \E behav \in [Range(mirrors) -> Outcomes],
          serves \in [Range(mirrors) -> Contents] :
         LET st == DownloadFileCall(mirrors, dest, behav, serves) IN
         /\ dest' = st.dest
         /\ mlast' = [op |-> "download_file",
                      result |-> IF st.returned THEN "True" ELSE "False",
                      attempts |-> st.attempts, served |-> st.served,
                      best |-> None, behav |-> behav, serves |-> serves,
                      pre_dest |-> dest, pre_stats |-> mirror_stats]
    /\ UNCHANGED <<cli_vars, util_vars, mirrors, mirror_stats, mirrorlist, pkg_vars, repo_vars>>

\* get_best_mirror(): random.choice(self.mirrors)
GetBestMirror ==
    /\ mlast.op = "none"
    /\ \E mirror \in Range(mirrors) :
         mlast' = [NoMirrorCall EXCEPT !.op = "get_best_mirror",
                                       !.result = "mirror", !.best = mirror,
                                       !.pre_dest = dest,
                                       !.pre_stats = mirror_stats]
    /\ UNCHANGED <<cli_vars, util_vars, mirrors, mirror_stats, dest, mirrorlist, pkg_vars, repo_vars>>

\* the caller takes the result; the next call may start
MirrorReturn ==
    /\ mlast.op # "none"
    /\ mlast' = NoMirrorCall
    /\ UNCHANGED <<cli_vars, util_vars, mirrors, mirror_stats, dest, mirrorlist, pkg_vars, repo_vars>>

MirrorNext == DownloadFile \/ GetBestMirror \/ MirrorReturn

MirrorSpec == MirrorInit /\ [][MirrorNext]_vars

(***************************************************************************)
(* One RepositoryManager used by one caller.  Loading a repository database *)
(* is not implemented (Repository.initialize and update load nothing):      *)
(* the packages dict of a repository gets its entries only from the caller, *)
(* who writes get_repo(name).packages[pkg_name].  rlast holds what the      *)
(* caller observes of the call that has just returned.                      *)
(***************************************************************************)
PkgNames == {"vim", "nano"}

\* the metadata dict the repository repo_name holds for pkg_name
PkgData(repo_name, pkg_name) == [name |-> pkg_name, repo |-> repo_name]

RepoInit ==
    /\ NoCommandLine
    /\ ReposAtRest
    /\ MirrorsAtRest
    /\ UtilsAtRest
    /\ PackageManagerAtRest

\* sig_level arguments ('Optional' is the default)
SigLevels == {"Optional", "Required"}

\* the signature of the repository database at the repository's URL
Signatures == {"valid", "missing", "invalid"}

\* add_repo(name, url, sig_level); the signature found at the URL is part
\* of the environment and is never fetched
AddRepo ==
    /\ rlast.op = "none"
    /\ \E name \in RepoNames, sig_level \in SigLevels,
          signature \in Signatures :
         /\ repos' = AddRepoTo(repos, name, RepoUrl(name), sig_level)
         /\ rlast' = [op |-> "add_repo", name |-> name,
                      result |-> ~HasRepo(repos, name),
                      sig_level |-> sig_level, signature |-> signature]
    /\ UNCHANGED <<cli_vars, util_vars, pkg_vars, mirror_vars>>

\* remove_repo(name)
RemoveRepo ==
    /\ rlast.op = "none"
    /\ \E name \in RepoNames :
         /\ repos' = RemoveRepoFrom(repos, name)
         /\ rlast' = [op |-> "remove_repo", name |-> name,
                      result |-> HasRepo(repos, name)]
    /\ UNCHANGED <<cli_vars, util_vars, pkg_vars, mirror_vars>>

\* get_repo(name).packages[pkg_name] = data, written by the caller
SetPackage ==
    /\ rlast.op = "none"
    /\ \E i \in 1..Len(repos), pkg_name \in PkgNames :
         /\ pkg_name \notin DOMAIN repos[i].packages
         /\ repos' = [repos EXCEPT ![i].packages =
                         Put(@, pkg_name, PkgData(repos[i].name, pkg_name))]
    /\ UNCHANGED <<cli_vars, util_vars, rlast, pkg_vars, mirror_vars>>

\* find_package(pkg_name)
FindPackage ==
    /\ rlast.op = "none"
    /\ \E pkg_name \in PkgNames :
         rlast' = [op |-> "find_package", name |-> pkg_name,
                   result |-> FindPackageIn(repos, pkg_name)]
    /\ UNCHANGED <<cli_vars, util_vars, repos, pkg_vars, mirror_vars>>

\* the caller takes the result; the next call may start
RepoReturn ==
    /\ rlast.op # "none"
    /\ rlast' = NoRepoCall
    /\ UNCHANGED <<cli_vars, util_vars, repos, pkg_vars, mirror_vars>>

RepoNext == AddRepo \/ RemoveRepo \/ SetPackage \/ FindPackage \/ RepoReturn

RepoSpec == RepoInit /\ [][RepoNext]_vars

(***************************************************************************)
(* The validators, each applied to a string of at most MaxStrLen            *)
(* characters.                                                              *)
(***************************************************************************)
ValidatorInit ==
    /\ NoCommandLine
    /\ vin \in Strings(MaxStrLen)
    /\ vout = NoVerdict
    /\ dlast = NoDownload
    /\ PackageManagerAtRest
    /\ NoRepositoryManager
    /\ mirrors = <<DefaultServer>>
    /\ mirrorlist = NoMirrorList
    /\ mirror_stats = EmptyDict
    /\ dest = NoFile
    /\ mlast = NoMirrorCall

ValidateName ==
    /\ vout.op = "none"
    /\ vout' = [op |-> "validate_package_name", ret |-> ValidatePackageName(vin)]
    /\ UNCHANGED <<cli_vars, vin, dlast, pkg_vars, mirror_vars, repo_vars>>

ValidateVersion ==
    /\ vout.op = "none"
    /\ vout' = [op |-> "validate_package_version",
                ret |-> ValidatePackageVersion(vin)]
    /\ UNCHANGED <<cli_vars, vin, dlast, pkg_vars, mirror_vars, repo_vars>>

ValidatorNext == ValidateName \/ ValidateVersion

ValidatorSpec == ValidatorInit /\ [][ValidatorNext]_vars

(***************************************************************************)
(* The downloader used by one caller: each action is a whole call of        *)
(* download_with_retry or download_file on one URL and one destination      *)
(* path, which may hold an earlier file.  max_retries ranges over           *)
(* -1..MaxRetryArg.                                                         *)
(***************************************************************************)
DownloadInit ==
    /\ NoCommandLine
    /\ dest \in {NoFile, OldFile}
    /\ dlast = NoDownload
    /\ vin = <<>>
    /\ vout = NoVerdict
    /\ mirrors = <<DefaultServer>>
    /\ mirrorlist = NoMirrorList
    /\ mirror_stats = EmptyDict
    /\ mlast = NoMirrorCall
    /\ PackageManagerAtRest
    /\ NoRepositoryManager

Retry ==
    /\ dlast.op = "none"
    /\ \E max_retries \in -1..MaxRetryArg, checksum \in Checksums,
          algorithm \in Algorithms :
         \E behav \in [1..max_retries -> AttemptOutcomes] :
            LET st == DownloadWithRetry(dest, the_url, max_retries, checksum,
                                        algorithm, behav)
            IN  /\ dest' = st.dest
                /\ dlast' = [op |-> "download_with_retry",
                             max_retries |-> max_retries,
                             checksum |-> checksum, algorithm |-> algorithm,
                             behav |-> behav, ret |-> st.ret,
                             attempts |-> st.attempts, sleeps |-> st.sleeps,
                             pre_dest |-> dest]
    /\ UNCHANGED <<cli_vars, vin, vout, mirrors, mirror_stats, mlast, mirrorlist, pkg_vars, repo_vars>>

\* download_file(url, destination) called on its own
Fetch ==
    /\ dlast.op = "none"
    /\ \E outcome \in AttemptOutcomes :
         LET d == UtilDownloadFile(dest, the_url, outcome)
         IN  /\ dest' = d.dest
             /\ dlast' = [op |-> "download_file", ret |-> d.ret,
                          attempts |-> <<outcome>>, pre_dest |-> dest]
    /\ UNCHANGED <<cli_vars, vin, vout, mirrors, mirror_stats, mlast, mirrorlist, pkg_vars, repo_vars>>

\* the caller takes the result; the next call may start
DownloadReturn ==
    /\ dlast.op # "none"
    /\ dlast' = NoDownload
    /\ UNCHANGED <<cli_vars, vin, vout, mirror_vars, pkg_vars, repo_vars>>

DownloadNext == Retry \/ Fetch \/ DownloadReturn

DownloadSpec == DownloadInit /\ [][DownloadNext]_vars

(***************************************************************************)
(* Vocabulary of the properties                                             *)
(***************************************************************************)
qux == <<"qux">>

\* the word list ws lists the name n itself, with no version constraint
ListsName(ws, n) == \E i \in 1..Len(ws) : ws[i].name = n /\ ws[i].con = ""

\* the word list ws references n, with or without a version constraint
References(ws, n) == \E i \in 1..Len(ws) : ws[i].name = n

\* the capability names a package provides
Capabilities(pkg) == {pkg.provides[i].name : i \in 1..Len(pkg.provides)}

\* a conflicts with b: a lists b's name or a capability of b in conflicts
ConflictsWith(a, b) ==
    \E i \in 1..Len(a.conflicts) :
        a.conflicts[i].name \in {b.name} \cup Capabilities(b)

NoConflictInstalled(mem) ==
    \A x, y \in DOMAIN mem : x # y => ~ConflictsWith(mem[x], mem[y])

Count(s, x) == Cardinality({i \in 1..Len(s) : s[i] = x})
Pos(s, x) == CHOOSE i \in 1..Len(s) : s[i] = x

DatabaseUnchanged == installed_pkgs = last.pre_installed /\ disk = last.pre_disk

\* the requested names removed earlier in the call than package_names[i]
RemovedBefore(i) ==
    {last.package_names[j] : j \in 1..(i - 1)} \cap Range(last.removed)

\* the packages installed when the call reaches package_names[i]
InstalledAt(i) == DOMAIN last.pre_installed \ RemovedBefore(i)

\* ... those of them that list package_names[i] in depends
NamedDependentsAt(i) ==
    {last.pre_installed[q].name :
        q \in {x \in InstalledAt(i) :
                 ListsName(last.pre_installed[x].depends, last.package_names[i])}}

\* ... those that reference its name or a capability it provides
AllDependentsAt(i) ==
    LET p == last.package_names[i] IN
    {q \in InstalledAt(i) :
        \E c \in {p} \cup Capabilities(last.pre_installed[p]) :
            References(last.pre_installed[q].depends, c)}

\* a candidate for name n exists in the package index
HasCandidate(n) == n \in DOMAIN available_pkgs /\ available_pkgs[n] # <<>>

\* the dependencies declared by the packages of the diamond scenario
DiamondDepends ==
    [n \in {foo, bar, baz, qux} |->
        CASE n = foo -> {bar, baz}
          [] n = bar -> {qux}
          [] n = baz -> {qux}
          [] OTHER -> {}]

(***************************************************************************)
(* Properties                                                               *)
(***************************************************************************)

\* C1: an install of several names in which a filesystem operation fails
\* part-way leaves the installed map and the disk records as they were
\* before the call.
C1_Atomicity ==
    (/\ last.op = "install"
     /\ Len(last.package_names) >= 2
     /\ last.result = "raised")
    => DatabaseUnchanged

\* C2: at most one install / remove / upgrade call is in flight at any time:
\* between a call's first check and its return no other call is running.
C2_AtMostOneInFlight ==
    Cardinality({t \in DOMAIN th : InFlight(t)}) <= 1

C4_DependentsSet ==
    (last.op = "remove" /\ ~last.nodeps) =>
        \A i \in 1..Len(last.package_names) :
            LET p == last.package_names[i] IN
            (p \in DOMAIN last.pre_installed /\ AllDependentsAt(i) # {}) =>
                /\ last.result = "False"
                /\ p \in DOMAIN installed_pkgs

\* C5: a remove that fails because a requested name has installed dependents
\* removes nothing: the installed map and the disk are as before the call.
C5_FailedRemoveAppliesNothing ==
    (last.op = "remove" /\ last.blocked # {}) => DatabaseUnchanged

\* C6: a forced remove (nodeps) in which no filesystem operation fails
\* removes every requested installed package, whatever depends on it, and
\* returns True.
C6_ForcedRemoval ==
    (last.op = "remove" /\ last.nodeps /\ ~last.faulted) =>
        /\ last.result = "True"
        /\ \A n \in Range(last.package_names) \cap DOMAIN last.pre_installed :
              /\ n \notin DOMAIN installed_pkgs
              /\ n \notin DOMAIN disk
              /\ n \in Range(last.removed)

C6_Witness ==
    /\ last.op = "remove" /\ last.nodeps /\ ~last.faulted
    /\ bar \in Range(last.package_names)
    /\ {foo, bar} \subseteq DOMAIN last.pre_installed
    /\ ListsName(last.pre_installed[foo].depends, bar)
    /\ foo \in DOMAIN installed_pkgs
    /\ bar \notin DOMAIN installed_pkgs
    /\ last.result = "True"

\* C7: installing foo, which depends on bar and baz, which both depend on
\* qux, with none of them installed, installs each of the four exactly once
\* and every dependency before its dependent.
C7_DiamondOrder ==
    (/\ last.op = "install"
     /\ last.package_names = <<foo>>
     /\ last.result = "True"
     /\ DOMAIN last.pre_installed \cap DOMAIN DiamondDepends = {})
    => /\ \A n \in DOMAIN DiamondDepends :
             Count(last.applied, n) = 1 /\ n \in DOMAIN installed_pkgs
       /\ \A n \in DOMAIN DiamondDepends : \A d \in DiamondDepends[n] :
             Pos(last.applied, d) < Pos(last.applied, n)

\* C8: an install that requests a name that is not installed and has no
\* candidate in the package index fails and installs nothing.
C8_Unsatisfiable ==
    (/\ last.op = "install"
     /\ \E n \in Range(last.package_names) :
            n \notin DOMAIN last.pre_installed /\ ~HasCandidate(n))
    => last.result # "True" /\ DatabaseUnchanged

\* C9: a non-forced install never leaves two conflicting packages installed
\* together: when the installed packages were conflict-free before the call
\* they are conflict-free after it.
C9_NoConflictInstalled ==
    (/\ last.op = "install" /\ ~last.nodeps
     /\ NoConflictInstalled(last.pre_installed))
    => NoConflictInstalled(installed_pkgs)

\* C10: upgrade called with an empty list of names considers every installed
\* package.
C10_UpgradeEmptyMeansAll ==
    (last.op = "upgrade" /\ ~last.is_none /\ last.package_names = <<>>)
    => Range(last.considered) = DOMAIN last.pre_installed

\* the versions the repositories offer, in the upgrade scenario: a newer foo,
\* the same bar, nothing for the other names
Offered == [n \in {foo, bar} |-> IF n = foo THEN "2.0.0" ELSE "1.0.0"]

VersionKey == [v \in {"1.0.0", "2.0.0"} |->
                 IF v = "1.0.0" THEN <<1, 0, 0>> ELSE <<2, 0, 0>>]

\* version a is strictly smaller than version b
VersionLess(a, b) ==
    LET x == VersionKey[a]
        y == VersionKey[b]
    IN  \E i \in 1..3 : x[i] < y[i] /\ \A j \in 1..(i - 1) : x[j] = y[j]

\* a strictly greater version of the package installed as n is offered
GreaterOffered(n) ==
    n \in DOMAIN Offered /\ VersionLess(last.pre_installed[n].version, Offered[n])

\* C11: after an upgrade, every considered installed package for which a
\* strictly greater version is offered is installed at that greater version.
C11_UpgradeReplaces ==
    last.op = "upgrade"
    => \A n \in Range(last.considered) :
          GreaterOffered(n)
          => n \in DOMAIN installed_pkgs /\ installed_pkgs[n].version = Offered[n]

CanServe == {m \in Range(mirrors) : mlast.behav[m] = "ok"}

\* the first mirror, in list order, that can serve the file
FirstServing == mirrors[CHOOSE i \in 1..Len(mirrors) :
                          /\ mirrors[i] \in CanServe
                          /\ \A j \in 1..(i - 1) : mirrors[j] \notin CanServe]

\* C13: a fetch succeeds whenever some mirror of the list can serve the
\* file, with the complete content of the first such mirror in list order;
\* so with [m1, m2], m1 unreachable and m2 reachable, with m2's content.
C13_MirrorFallback ==
    (mlast.op = "download_file" /\ CanServe # {})
    => /\ mlast.result = "True"
       /\ mlast.served = FirstServing
       /\ dest = FileFrom(FirstServing, mlast.serves[FirstServing], FALSE)

\* the fetch over [m1, m2] with m1 unreachable and m2 serving the file
C13_Witness ==
    /\ mlast.op = "download_file"
    /\ mirrors = <<m1, m2>>
    /\ mlast.behav[m1] = "unreachable"
    /\ mlast.behav[m2] = "ok"
    /\ mlast.result = "True"
    /\ dest.from = m2

\* a counter of the health stats of a mirror, 0 when none is recorded
StatOf(stats, mirror, field) ==
    IF mirror \in DOMAIN stats THEN stats[mirror][field] ELSE 0

\* C14: every fetch records health stats: each mirror that failed during the
\* fetch has its failure count incremented by one, and the mirror that
\* served the file has its success count incremented by one.
C14_StatsRecorded ==
    mlast.op = "download_file"
    => \A m \in Range(mlast.attempts) :
          IF m = mlast.served
          THEN StatOf(mirror_stats, m, "success_count")
                 = StatOf(mlast.pre_stats, m, "success_count") + 1
          ELSE StatOf(mirror_stats, m, "failure_count")
                 = StatOf(mlast.pre_stats, m, "failure_count") + 1

\* C15: a fetch that reports failure has attempted every mirror of the list,
\* in list order, skipping none.
C15_FailsAfterAllMirrors ==
    (mlast.op = "download_file" /\ mlast.result = "False")
    => mlast.attempts = mirrors

\* a failed fetch over a list of two mirrors, the second failing mid-stream
C15_Witness ==
    /\ mlast.op = "download_file"
    /\ mlast.result = "False"
    /\ Len(mirrors) = 2
    /\ mlast.behav[mirrors[1]] = "unreachable"
    /\ mlast.behav[mirrors[2]] = "midstream"

\* C16: a fetch never reports success for content whose checksum does not
\* match the expected checksum: such a mirror counts as failed, its bytes
\* are discarded and the next mirror is tried.
C16_ChecksumMismatchFails ==
    (mlast.op = "download_file" /\ mlast.result = "True")
    => /\ dest.bytes = "good"
       /\ mlast.serves[mlast.served] = "good"

\* C17: a fetch that reports failure leaves no bytes it wrote at the
\* destination path: the file there is absent or is the one from before the
\* call.
C17_NoPartialArtifact ==
    (mlast.op = "download_file" /\ mlast.result = "False")
    => dest \in {NoFile, mlast.pre_dest}

\* download_with_retry(url, destination, checksum, max_retries: int = 3)
DefaultMaxRetries == 3

\* C18: a fetch reports failure only after max_retries (default 3) full
\* passes over the mirror list.
C18_RetriesFullPasses ==
    (mlast.op = "download_file" /\ mlast.result = "False")
    => Len(mlast.attempts) = DefaultMaxRetries * Len(mirrors)

\* C19: with no health stats recorded, get_best_mirror returns the first
\* mirror of the configured list, the same on every run.
C19_DeterministicSelection ==
    (mlast.op = "get_best_mirror" /\ mlast.pre_stats = EmptyDict)
    => mlast.best = mirrors[1]

\* the priority rank of the repositories: core before extra before community
RepoPriority == [n \in RepoNames |->
                   CASE n = "core" -> 1 [] n = "extra" -> 2 [] OTHER -> 3]

\* the configured repositories that define pkg_name
Defining(pkg_name) ==
    {repos[i].name : i \in {j \in 1..Len(repos) :
                               pkg_name \in DOMAIN repos[j].packages}}

\* the one of them with the highest priority (the lowest rank)
HighestPriority(S) ==
    CHOOSE n \in S : \A o \in S : RepoPriority[n] <= RepoPriority[o]

\* C20: when several repositories define a package name, find_package
\* returns the definition of the highest-priority one (core before extra),
\* after any sequence of add_repo and remove_repo calls.
C20_CrossRepoPriority ==
    (rlast.op = "find_package" /\ Defining(rlast.name) # {})
    => /\ rlast.result # None
       /\ rlast.result.repo_name = HighestPriority(Defining(rlast.name))
       /\ rlast.result.pkg = PkgData(HighestPriority(Defining(rlast.name)),
                                     rlast.name)

\* C21: a repository added with signature level Required whose database
\* signature is missing or invalid is refused: add_repo does not return True
\* and the repository is not configured as if verification had passed.
C21_RequiredSignature ==
    (/\ rlast.op = "add_repo"
     /\ rlast.sig_level = "Required"
     /\ rlast.signature \in {"missing", "invalid"})
    => /\ rlast.result = FALSE
       /\ ~\E i \in 1..Len(repos) :
              /\ repos[i].name = rlast.name
              /\ repos[i].sig_level = "Required"
              /\ repos[i].initialized

\* C22: no installed Package carries a malformed version string (empty, or
\* not starting with a digit): such a record is rejected when it is loaded.
C22_NoMalformedVersion ==
    \A n \in DOMAIN installed_pkgs :
        LET version == CharsOf(installed_pkgs[n].version)
        IN  version # <<>> /\ IsDigit(version[1])

\* the characters of the alphabet that are in [A-Za-z0-9@._+-]
NameCharset == {"a", "Z", "0", "1", "2", "@", ".", "_", "+", "-"}
Alnum == {"a", "Z", "0", "1", "2"}

\* C23 as stated: validate_package_name accepts a name exactly when it is
\* non-empty, every character is in [A-Za-z0-9@._+-], and both its first and
\* its last character are alphanumeric or underscore.
C23_NameAcceptedAsStated ==
    vout.op = "validate_package_name"
    => (vout.ret.is_valid
        <=> /\ vin # <<>>
            /\ \A i \in 1..Len(vin) : vin[i] \in NameCharset
            /\ vin[1] \in Alnum \cup {"_"}
            /\ vin[Len(vin)] \in Alnum \cup {"_"})

\* C23, amended: validate_package_name accepts a name exactly when it is
\* non-empty, every character is in [A-Za-z0-9@._+-], its first character is
\* alphanumeric, and its last character is alphanumeric or underscore.
C23_NameAccepted ==
    vout.op = "validate_package_name"
    => (vout.ret.is_valid
        <=> /\ vin # <<>>
            /\ \A i \in 1..Len(vin) : vin[i] \in NameCharset
            /\ vin[1] \in Alnum
            /\ vin[Len(vin)] \in Alnum \cup {"_"})

\* the name "_a" was validated and rejected; "a_" would have been accepted
C23_Witness ==
    /\ vout.op = "validate_package_name"
    /\ vin = <<"_", "a">>
    /\ ~vout.ret.is_valid
    /\ ValidatePackageName(<<"a", "_">>).is_valid

\* the orders in which the names of the list s can be listed
Orders(s) == {p \in [1..Len(s) -> Range(s)] : Range(p) = Range(s)}

\* the call of last made again on the same database with its names listed
\* in the order p, no filesystem operation failing
Reordered(p) ==
    IF last.op = "install"
    THEN InstallCall(p, last.nodeps,
                     CallState(last.pre_installed, last.pre_disk), NoFault)
    ELSE RemoveCall(p, last.nodeps,
                    CallState(last.pre_installed, last.pre_disk), NoFault)

\* C24: an install or a remove gives the same result and the same resulting
\* database whatever order its names are listed in.
C24_OrderIndependent ==
    (last.op \in {"install", "remove"} /\ ~last.faulted)
    => \A p \in Orders(last.package_names) :
          /\ Result(Reordered(p)) = last.result
          /\ Reordered(p).mem = installed_pkgs
          /\ Reordered(p).disk = disk

\* the order of the four version literals: epoch first, then pkgver, then
\* pkgrel
VersionRank ==
    [v \in {"1.0-1", "1.0-2", "1.1-1", "2:1.0-1"} |->
        CASE v = "1.0-1" -> 1 [] v = "1.0-2" -> 2 [] v = "1.1-1" -> 3
          [] OTHER -> 4]

\* the version of foo the repositories offer in the ordering scenario
OfferedLiteral == "1.1-1"

\* C25: versions are ordered 1.0-1 < 1.0-2 < 1.1-1 < 2:1.0-1 (epoch, then
\* pkgver, then pkgrel): an upgrade of foo with 1.1-1 offered leaves foo at
\* the greater of its installed version and 1.1-1.
C25_VersionOrder ==
    (/\ last.op = "upgrade"
     /\ foo \in Range(last.considered)
     /\ last.pre_installed[foo].version \in DOMAIN VersionRank)
    => /\ foo \in DOMAIN installed_pkgs
       /\ installed_pkgs[foo].version =
             IF VersionRank[last.pre_installed[foo].version]
                  < VersionRank[OfferedLiteral]
             THEN OfferedLiteral
             ELSE last.pre_installed[foo].version

\* C30: when install([n]) returns True, a package named exactly n is
\* installed afterwards, also for a name that contains a hyphen.
C30_InstalledUnderItsName ==
    (/\ last.op = "install"
     /\ Len(last.package_names) = 1
     /\ last.result = "True")
    => /\ last.package_names[1] \in DOMAIN installed_pkgs
       /\ installed_pkgs[last.package_names[1]].name = last.package_names[1]

\* the attempts a call with max_retries = n may make
MaxAttempts == IF dlast.max_retries > 0 THEN dlast.max_retries ELSE 0

\* attempt i downloads the file and, when a checksum is expected, the file
\* verifies against it
AttemptSucceeds(i) ==
    IF Truthy(dlast.checksum)
    THEN dlast.behav[i] = "good" /\ dlast.algorithm = "sha256"
    ELSE dlast.behav[i] \in {"good", "poisoned", "poisoned_stuck"}

\* attempt i fails: download_file returns False or verification fails
AttemptFails(i) == ~AttemptSucceeds(i) /\ dlast.behav[i] # "cleanup_raises"

\* C26: download_with_retry called with an expected checksum returns True
\* only if the file left at the destination has that digest; when the bytes
\* of every attempt mismatch it returns False.
C26_ChecksumVerified ==
    (dlast.op = "download_with_retry" /\ Truthy(dlast.checksum))
    => /\ dlast.ret = "True"
            => /\ dest.exists /\ ~dest.partial
               /\ Digest(dest) = Lower(dlast.checksum.str)
       /\ (/\ dlast.max_retries >= 1
           /\ \A i \in 1..dlast.max_retries :
                 dlast.behav[i] \in {"poisoned", "poisoned_stuck"})
            => dlast.ret = "False"

\* a call with the checksum in upper case: the first attempt brought other
\* bytes, the second the expected ones
C26_Witness ==
    /\ dlast.op = "download_with_retry"
    /\ dlast.checksum = Some("ABC")
    /\ dlast.attempts = <<"poisoned", "good">>
    /\ dlast.ret = "True"
    /\ dest.bytes = "good"

\* C27: download_with_retry makes at most max_retries attempts (none when
\* max_retries <= 0), makes no attempt after the first one that succeeds,
\* returns True only from a successful attempt, and returns False exactly
\* when it made max_retries attempts and all of them failed.
C27_AttemptBound ==
    dlast.op = "download_with_retry"
    => /\ Len(dlast.attempts) <= MaxAttempts
       /\ dlast.attempts = SubSeq(dlast.behav, 1, Len(dlast.attempts))
       /\ \A i \in 1..(Len(dlast.attempts) - 1) : AttemptFails(i)
       /\ dlast.ret = "True"
            => dlast.attempts # <<>> /\ AttemptSucceeds(Len(dlast.attempts))
       /\ dlast.ret = "False"
            <=> /\ Len(dlast.attempts) = MaxAttempts
                /\ \A i \in 1..MaxAttempts : AttemptFails(i)

\* a call allowed three attempts that stopped at its second, successful one
C27_Witness ==
    /\ dlast.op = "download_with_retry"
    /\ dlast.max_retries = 3
    /\ dlast.behav[1] = "midstream"
    /\ dlast.behav[2] = "good"
    /\ Len(dlast.attempts) = 2
    /\ dlast.ret = "True"

RECURSIVE Sum(_)
Sum(s) == IF s = <<>> THEN 0 ELSE Head(s) + Sum(Tail(s))

\* C28: download_with_retry waits 2^k seconds after failed attempt k
\* (k = 0, 1, ...), and not after the final attempt: a call with
\* max_retries = n >= 1 in which every attempt fails waits n - 1 times,
\* 2^(n-1) - 1 seconds in all.
C28_Backoff ==
    dlast.op = "download_with_retry"
    => /\ \A k \in 1..Len(dlast.sleeps) : dlast.sleeps[k] = Pow2(k - 1)
       /\ Len(dlast.sleeps) =
             Cardinality({i \in 1..Len(dlast.attempts) :
                            AttemptFails(i) /\ i < dlast.max_retries})
       /\ (dlast.ret = "False" /\ dlast.max_retries >= 1)
            => /\ Len(dlast.sleeps) = dlast.max_retries - 1
               /\ Sum(dlast.sleeps) = Pow2(dlast.max_retries - 1) - 1

\* three failed attempts: waits of 1 and 2 seconds, none after the third
C28_Witness ==
    /\ dlast.op = "download_with_retry"
    /\ dlast.max_retries = 3
    /\ dlast.ret = "False"
    /\ dlast.sleeps = <<1, 2>>

\* C29: when download_with_retry or download_file returns False after
\* writing to the destination or finding a file there, no file is left at
\* the destination path.
C29_NoFileAfterFailure ==
    (dlast.op \in {"download_with_retry", "download_file"} /\ dlast.ret = "False")
    => \/ ~dest.exists
       \/ dlast.attempts = <<>> /\ dest = dlast.pre_dest

\* C31: an install leaves the record (version, depends, provides,
\* conflicts) of every package that was installed before the call as it was.
C31_InstallKeepsRecords ==
    last.op = "install"
    => \A n \in DOMAIN last.pre_installed :
          /\ n \in DOMAIN installed_pkgs
          /\ installed_pkgs[n].version = last.pre_installed[n].version
          /\ installed_pkgs[n].depends = last.pre_installed[n].depends
          /\ installed_pkgs[n].provides = last.pre_installed[n].provides
          /\ installed_pkgs[n].conflicts = last.pre_installed[n].conflicts

\* the packages a PackageManager constructed now over <db_path>/local loads
Reloaded == LoadInstalledPackages(disk)

\* C32: after an install or a remove has returned or raised, also when a
\* directory creation, file write or directory delete failed in it, the
\* names of the installed map are the packages recorded on disk.
C32_MemoryMatchesDisk ==
    last.op \in {"install", "remove"}
    => DOMAIN installed_pkgs = DOMAIN Reloaded

(***************************************************************************)
(* A session: install and remove calls one after another on one            *)
(* PackageManager, the caller going on only after a call that returned     *)
(* True.  The names are what a caller may pass: install does not validate  *)
(* them.                                                                   *)
(***************************************************************************)
MaxSession == 2

\* duplicate-free lists of at most n of the names foo, bar and "a b"
SessionLists(n) == {s \in UNION {[1..k -> {foo, bar, a_b}] : k \in 0..n} :
                       \A i, j \in 1..Len(s) : i # j => s[i] # s[j]}

SessionInstall ==
    /\ pc = "idle" /\ ncalls < MaxSession
    /\ \E package_names \in SessionLists(MaxNames), nodeps \in BOOLEAN :
         \E fault \in InstallFaults(package_names) :
            Finish("install", package_names, nodeps, FALSE,
                   InstallCall(package_names, nodeps,
                               CallState(installed_pkgs, disk), fault))

SessionRemove ==
    /\ pc = "idle" /\ ncalls < MaxSession
    /\ \E package_names \in SessionLists(MaxNames), nodeps \in BOOLEAN :
         \E fault \in RemoveFaults(package_names) :
            Finish("remove", package_names, nodeps, FALSE,
                   RemoveCall(package_names, nodeps,
                              CallState(installed_pkgs, disk), fault))

\* the caller goes on after a call that returned True
SessionReturn ==
    /\ pc = "returned" /\ last.result = "True"
    /\ pc' = "idle"
    /\ last' = NoCall
    /\ UNCHANGED <<cli_vars, util_vars, mirror_vars, repo_vars, installed_pkgs, available_pkgs, disk, ncalls, th>>

SessionNext == SessionInstall \/ SessionRemove \/ SessionReturn

SessionSpec == Init /\ [][SessionNext]_vars

\* two maps of packages hold the same names with the same version,
\* depends, provides and conflicts
SameRecords(a, b) ==
    /\ DOMAIN a = DOMAIN b
    /\ \A n \in DOMAIN a :
          /\ a[n].name = b[n].name
          /\ a[n].version = b[n].version
          /\ a[n].depends = b[n].depends
          /\ a[n].provides = b[n].provides
          /\ a[n].conflicts = b[n].conflicts

\* C33: after a sequence of install and remove calls that all returned
\* True, a PackageManager constructed over the same database loads the
\* names, versions, depends, provides and conflicts the running one holds.
C33_RoundTrip ==
    (pc = "returned" /\ last.result = "True")
    => SameRecords(Reloaded, installed_pkgs)

\* the same, where no installed name has a space in it
C33_RoundTripPlainNames ==
    (/\ pc = "returned"
     /\ last.result = "True"
     /\ a_b \notin DOMAIN installed_pkgs)
    => SameRecords(Reloaded, installed_pkgs)

\* a word of a depends list is satisfied in mem: a package of that name is
\* installed, or an installed package provides it
Satisfied(mem, w) ==
    \E n \in DOMAIN mem :
       \/ mem[n].name = w.name
       \/ \E i \in 1..Len(mem[n].provides) : mem[n].provides[i].name = w.name

Closed(mem) ==
    \A n \in DOMAIN mem :
       \A i \in 1..Len(mem[n].depends) : Satisfied(mem, mem[n].depends[i])

\* C34: an install, upgrade or remove made without nodeps, in which no file
\* operation failed, on a database where every dependency of every installed
\* package is satisfied by an installed name or a provided capability,
\* leaves every dependency satisfied.
C34_ClosurePreserved ==
    (/\ last.op \in {"install", "upgrade", "remove"}
     /\ ~last.nodeps
     /\ ~last.faulted
     /\ Closed(last.pre_installed))
    => Closed(installed_pkgs)

(***************************************************************************)
(* One MirrorManager whose caller adds and removes mirrors.  The mirrorlist *)
(* file holds at most MaxMirrorLines lines.                                 *)
(***************************************************************************)
MaxMirrorLines == 3

MirrorListInit ==
    /\ NoCommandLine
    /\ mirrorlist \in {NoMirrorList}
                      \cup {MirrorFile(l) : l \in MirrorLists(MaxMirrors)}
    /\ mirrors = GetMirrors(mirrorlist)
    /\ mirror_stats = EmptyDict
    /\ dest = NoFile
    /\ mlast = NoMirrorCall
    /\ PackageManagerAtRest
    /\ NoRepositoryManager
    /\ UtilsAtRest

BoolStr(b) == IF b THEN "True" ELSE "False"

AddMirror ==
    /\ mlast.op = "none"
    /\ Len(mirrorlist.lines) < MaxMirrorLines
    /\ \E mirror_url \in GivenUrls, path_exists \in BOOLEAN, head_ok \in BOOLEAN :
         LET r == AddMirrorCall(mirrorlist, mirrors, mirror_url,
                                path_exists, head_ok)
         IN  /\ mirrorlist' = r.file
             /\ mirrors' = r.mirrors
             /\ mlast' = [op |-> "add_mirror", url |-> mirror_url,
                          result |-> BoolStr(r.ok),
                          path_exists |-> path_exists,
                          pre_mirrors |-> mirrors]
    /\ UNCHANGED <<cli_vars, util_vars, mirror_stats, dest, pkg_vars, repo_vars>>

RemoveMirror ==
    /\ mlast.op = "none"
    /\ \E mirror_url \in GivenUrls :
         LET r == RemoveMirrorCall(mirrorlist, mirrors, mirror_url)
         IN  /\ mirrorlist' = r.file
             /\ mirrors' = r.mirrors
             /\ mlast' = [op |-> "remove_mirror", url |-> mirror_url,
                          result |-> BoolStr(r.ok),
                          path_exists |-> FALSE,
                          pre_mirrors |-> mirrors]
    /\ UNCHANGED <<cli_vars, util_vars, mirror_stats, dest, pkg_vars, repo_vars>>

MirrorListSpec ==
    MirrorListInit /\ [][AddMirror \/ RemoveMirror \/ MirrorReturn]_vars

\* C35: after remove_mirror(u) has returned True, u is not in the mirror
\* list of the manager, whatever add_mirror and remove_mirror calls came
\* before.
C35_RemovedMirrorGone ==
    (mlast.op = "remove_mirror" /\ mlast.result = "True")
    => mlast.url \notin Range(mirrors)

\* a URL of the form file://<absolute path>
IsFilePathUrl(u) == u.scheme = "file" /\ u.netloc = "" /\ u.path # ""

\* C36: add_mirror of a URL file://<absolute path> returns True with the
\* URL in the mirror list afterwards exactly when the path exists, and
\* leaves the mirror list as it was when it returns False.
C36_LocalMirrorAccepted ==
    (mlast.op = "add_mirror" /\ IsFilePathUrl(mlast.url))
    => /\ (mlast.result = "True" /\ mlast.url \in Range(mirrors))
           <=> mlast.path_exists
       /\ mlast.result = "False" => mirrors = mlast.pre_mirrors

(***************************************************************************)
(* One run of the command line: run(args) with sys.argv[1:2] = argv.        *)
(***************************************************************************)
CliInit ==
    /\ \E argv, args \in {<<>>} \cup {<<w>> : w \in CommandWords} :
          cli = RunState(argv, args)
    /\ PackageManagerAtRest
    /\ NoRepositoryManager
    /\ MirrorsAtRest
    /\ UtilsAtRest

CliRun ==
    /\ cli.status = "running"
    /\ cli' = Run(cli)
    /\ UNCHANGED <<pkg_vars, mirror_vars, repo_vars, util_vars>>

CliSpec == CliInit /\ [][CliRun]_vars

\* C37: run given a word that is not one of the eight commands reports an
\* unknown command and returns 1, without calling run again and without
\* calling any attribute.
C37_UnknownWordReported ==
    (/\ cli.status \in {"running", "done"}
     /\ cli.argv # <<>>
     /\ cli.word[1] \notin Commands)
    => /\ cli.depth = 0
       /\ cli.invoked = "none"
       /\ cli.status = "done" => (cli.outcome = "unknown" /\ cli.ret = "1")

====
